---- MODULE Spec2Model ----
(***************************************************************************)
(* Model of vortex.py: the digital-root recurrence, the path generator     *)
(* plot_path with the recursive coverage loop of plot_modulus_circle, and  *)
(* the construction of the arc-colour palette.  Drawing calls are not      *)
(* modelled; an arrow drawn by ax.annotate is recorded as an edge.         *)
(***************************************************************************)
EXTENDS Integers, Sequences, FiniteSets, TLC

VARIABLES
    start, multiplier, modulus, iterations, direction, recursive,
    background_color, text_color,   \* arguments of plot_modulus_circle
    pc,                             \* position of the run
    colors,                         \* the local list `colors`
    visited,                        \* the local set `visited`
    paths,                          \* the calls of plot_path so far, with their arrows
    point,                          \* loop variable of the recursive scan (0: not in the loop)
    current_number,                 \* local of plot_path
    step,                           \* the loop index `_` of plot_path
    fn_pc, n, mod, mult, out        \* a direct call of digital_root and of the two steps

vars == <<start, multiplier, modulus, iterations, direction, recursive,
          background_color, text_color, pc, colors, visited, paths, point,
          current_number, step, fn_pc, n, mod, mult, out>>

runVars == <<start, multiplier, modulus, iterations, direction, recursive,
             background_color, text_color, pc, colors, visited, paths, point,
             current_number, step>>

fnVars == <<fn_pc, n, mod, mult, out>>

----------------------------------------------------------------------------
(* Bounds of the model *)

MaxModulus == 7
MaxMultiplier == 3
MaxIterations == 4
MaxN == 20
MaxMod == 7

----------------------------------------------------------------------------
(* Colours *)

\* A sublist of the literal list `colors`, in the order of the source: two
\* names below the luminance band, two inside it and one above it.
ColorList == <<"black", "blue", "gray", "orange", "white">>

\* Values offered for background_color and text_color: the two defaults, a
\* name inside the band, and a valid colour that the list does not hold.
ColorArgs == {"black", "white", "gray", "k"}

\* mcolors.to_rgb, in units of 1/255.
to_rgb(color_name) ==
    CASE color_name = "black"  -> <<0, 0, 0>>
      [] color_name = "blue"   -> <<0, 0, 255>>
      [] color_name = "gray"   -> <<128, 128, 128>>
      [] color_name = "orange" -> <<255, 165, 0>>
      [] color_name = "white"  -> <<255, 255, 255>>

\* luminance, in units of 1/(255 * 10000)
luminance(rgb) == 2126 * rgb[1] + 7152 * rgb[2] + 722 * rgb[3]

\* low_threshold <= luminance <= high_threshold, thresholds 0.3 and 0.7
InBand(color_name) ==
    /\ 3 * 255 * 1000 <= luminance(to_rgb(color_name))
    /\ luminance(to_rgb(color_name)) <= 7 * 255 * 1000

RECURSIVE filter_colors(_)
filter_colors(color_list) ==
    IF color_list = <<>> THEN <<>>
    ELSE IF InBand(Head(color_list))
         THEN <<Head(color_list)>> \o filter_colors(Tail(color_list))
         ELSE filter_colors(Tail(color_list))

Elems(s) == {s[k] : k \in 1..Len(s)}

\* list.remove(x): drops the first occurrence; raises ValueError when absent.
RECURSIVE list_remove(_, _)
list_remove(list, x) ==
    IF list = <<>> THEN <<>>
    ELSE IF Head(list) = x THEN Tail(list)
         ELSE <<Head(list)>> \o list_remove(Tail(list), x)

RemoveRaises(list, x) == x \notin Elems(list)

----------------------------------------------------------------------------
(* The recurrence *)

digital_root_plain(m, md) == m % md

digital_root(m, md) == IF m # 0 THEN ((m - 1) % md) + 1 ELSE 0

\* pow(base, -1, md): 0 when md is 1, ValueError when base has no inverse.
pow_inverse_total(base, md) ==
    IF md = 1 THEN [raised |-> FALSE, value |-> 0]
    ELSE IF \E x \in 1..(md - 1) : (base * x) % md = 1
         THEN [raised |-> FALSE,
               value |-> CHOOSE x \in 1..(md - 1) : (base * x) % md = 1]
         ELSE [raised |-> FALSE, value |-> 0]

pow_inverse(base, md) ==
    IF md = 1 THEN [raised |-> FALSE, value |-> 0]
    ELSE IF \E x \in 1..(md - 1) : (base * x) % md = 1
         THEN [raised |-> FALSE,
               value |-> CHOOSE x \in 1..(md - 1) : (base * x) % md = 1]
         ELSE [raised |-> TRUE, value |-> 0]

forward_next_plain(current, factor, md) == (current * factor) % md

forward_next(current, factor, md) == digital_root(current * factor, md)

backward_next(current, factor, md) ==
    digital_root(current * pow_inverse(factor, md).value, md)

\* next_number of one iteration of plot_path
next_number(current) ==
    IF direction THEN forward_next(current, multiplier, modulus)
    ELSE backward_next(current, multiplier, modulus)

\* the iteration raises before anything is drawn
StepRaises == ~direction /\ pow_inverse(multiplier, modulus).raised

\* `if next_number == start: break` -- start of the enclosing function
Breaks(next) == next = start

visited_add_next(current, next) == visited \cup {next}

visited_add(current, next) == visited \cup {current}

should_seed_skip_first(p) == p \notin visited /\ p # 1

\* `point not in visited and point != modulus`
should_seed(p) == p \notin visited /\ p # modulus

----------------------------------------------------------------------------
(* A run of plot_modulus_circle *)

NoCall == fn_pc = "idle" /\ n = 0 /\ mod = 1 /\ mult = 1 /\ out = <<>>

Init ==
    /\ modulus \in 1..MaxModulus
    /\ start \in 1..modulus
    /\ multiplier \in 1..MaxMultiplier
    /\ iterations \in 0..MaxIterations
    /\ direction \in BOOLEAN
    /\ recursive \in BOOLEAN
    /\ background_color \in ColorArgs
    /\ text_color \in ColorArgs
    /\ pc = "colors"
    /\ colors = ColorList
    /\ visited = {}
    /\ paths = <<>>
    /\ point = 0
    /\ current_number = 0
    /\ step = 0
    /\ NoCall

args == <<start, multiplier, modulus, iterations, direction, recursive,
          background_color, text_color>>

\* colors.remove(background_color); colors.remove(text_color); filter_colors
BuildPalette ==
    /\ pc = "colors"
    /\ ~RemoveRaises(colors, background_color)
    /\ ~RemoveRaises(list_remove(colors, background_color), text_color)
    /\ colors' = filter_colors(
                    list_remove(list_remove(colors, background_color), text_color))
    /\ pc' = "initial"
    /\ UNCHANGED <<args, visited, paths, point, current_number, step, fnVars>>

\* the first remove raises: the list is untouched
RemoveBackgroundRaises ==
    /\ pc = "colors"
    /\ RemoveRaises(colors, background_color)
    /\ pc' = "ValueError"
    /\ UNCHANGED <<args, colors, visited, paths, point, current_number, step, fnVars>>

\* the second remove raises: the background colour is already gone
RemoveTextRaises ==
    /\ pc = "colors"
    /\ ~RemoveRaises(colors, background_color)
    /\ RemoveRaises(list_remove(colors, background_color), text_color)
    /\ colors' = list_remove(colors, background_color)
    /\ pc' = "ValueError"
    /\ UNCHANGED <<args, visited, paths, point, current_number, step, fnVars>>

\* entry of plot_path(_start, color)
Call(_start, color) ==
    /\ paths' = Append(paths, [start |-> _start, color |-> color,
                               edges |-> <<>>, returned |-> FALSE])
    /\ current_number' = _start
    /\ step' = 0
    /\ pc' = "path"

\* _c = random.choice(colors); plot_path(start, _c)
InitialPath ==
    /\ pc = "initial"
    /\ \E _c \in Elems(colors) : Call(start, _c)
    /\ UNCHANGED <<args, colors, visited, point, fnVars>>

\* plot_path returns to its caller: the initial call, or the scan at `point`
Return(ps) ==
    /\ paths' = [ps EXCEPT ![Len(ps)].returned = TRUE]
    /\ IF point = 0
       THEN IF recursive THEN pc' = "scan" /\ point' = 1
            ELSE pc' = "done" /\ point' = point
       ELSE pc' = "scan" /\ point' = point + 1

Emit(ps, current, next) ==
    [ps EXCEPT ![Len(ps)].edges = Append(@, <<current, next>>)]

\* one iteration of the loop that draws an arrow and goes on
PathStep ==
    /\ pc = "path"
    /\ step < iterations
    /\ ~StepRaises
    /\ ~Breaks(next_number(current_number))
    /\ paths' = Emit(paths, current_number, next_number(current_number))
    /\ visited' = visited_add(current_number, next_number(current_number))
    /\ current_number' = next_number(current_number)
    /\ step' = step + 1
    /\ UNCHANGED <<args, pc, colors, point, fnVars>>

\* one iteration that draws an arrow and breaks out of the loop
PathBreak ==
    /\ pc = "path"
    /\ step < iterations
    /\ ~StepRaises
    /\ Breaks(next_number(current_number))
    /\ visited' = visited_add(current_number, next_number(current_number))
    /\ Return(Emit(paths, current_number, next_number(current_number)))
    /\ UNCHANGED <<args, colors, current_number, step, fnVars>>

\* range(iterations) is exhausted
PathExhausted ==
    /\ pc = "path"
    /\ step >= iterations
    /\ Return(paths)
    /\ UNCHANGED <<args, colors, visited, current_number, step, fnVars>>

\* pow(multiplier, -1, modulus) raises ValueError
PathRaises ==
    /\ pc = "path"
    /\ step < iterations
    /\ StepRaises
    /\ pc' = "NoModularInverse"
    /\ UNCHANGED <<args, colors, visited, paths, point, current_number, step, fnVars>>

\* for point in range(1, modulus + 1): an unvisited point seeds a path
ScanSeed ==
    /\ pc = "scan"
    /\ point <= modulus
    /\ should_seed(point)
    /\ \E _c \in Elems(colors) : Call(point, _c)
    /\ UNCHANGED <<args, colors, visited, point, fnVars>>

ScanSkip ==
    /\ pc = "scan"
    /\ point <= modulus
    /\ ~should_seed(point)
    /\ point' = point + 1
    /\ UNCHANGED <<args, pc, colors, visited, paths, current_number, step, fnVars>>

ScanEnd ==
    /\ pc = "scan"
    /\ point > modulus
    /\ pc' = "done"
    /\ UNCHANGED <<args, colors, visited, paths, point, current_number, step, fnVars>>

Next ==
    \/ BuildPalette
    \/ RemoveBackgroundRaises
    \/ RemoveTextRaises
    \/ InitialPath
    \/ PathStep
    \/ PathBreak
    \/ PathExhausted
    \/ PathRaises
    \/ ScanSeed
    \/ ScanSkip
    \/ ScanEnd

Spec == Init /\ [][Next]_vars

----------------------------------------------------------------------------
(* Direct calls: digital_root(n, mod), and from a point n of 1..mod the    *)
(* forward step followed by the backward step, with multiplier mult.       *)

IdleRun ==
    /\ start = 1 /\ multiplier = 1 /\ modulus = 1 /\ iterations = 0
    /\ direction = TRUE /\ recursive = FALSE
    /\ background_color = "black" /\ text_color = "white"
    /\ pc = "idle" /\ colors = <<>> /\ visited = {} /\ paths = <<>>
    /\ point = 0 /\ current_number = 0 /\ step = 0

InitFn ==
    /\ IdleRun
    /\ fn_pc = "args"
    /\ n \in 0..MaxN
    /\ mod \in 1..MaxMod
    /\ mult \in 1..MaxMultiplier
    /\ out = <<>>

CallDigitalRoot ==
    /\ fn_pc = "args"
    /\ out' = <<digital_root(n, mod)>>
    /\ fn_pc' = "root"
    /\ UNCHANGED <<runVars, n, mod, mult>>

CallForward ==
    /\ fn_pc = "args"
    /\ n \in 1..mod
    /\ out' = <<forward_next(n, mult, mod)>>
    /\ fn_pc' = "forward"
    /\ UNCHANGED <<runVars, n, mod, mult>>

CallBackward ==
    /\ fn_pc = "forward"
    /\ ~pow_inverse(mult, mod).raised
    /\ out' = Append(out, backward_next(out[1], mult, mod))
    /\ fn_pc' = "backward"
    /\ UNCHANGED <<runVars, n, mod, mult>>

CallBackwardRaises ==
    /\ fn_pc = "forward"
    /\ pow_inverse(mult, mod).raised
    /\ fn_pc' = "NoModularInverse"
    /\ UNCHANGED <<runVars, n, mod, mult, out>>

NextFn ==
    \/ CallDigitalRoot
    \/ CallForward
    \/ CallBackward
    \/ CallBackwardRaises

SpecFn == InitFn /\ [][NextFn]_vars

----------------------------------------------------------------------------
(* Vocabulary of the properties *)

RECURSIVE gcd(_, _)
gcd(a, b) == IF b = 0 THEN a ELSE gcd(b, a % b)

Congruent(a, b, md) == a % md = b % md

PathIds == 1..Len(paths)

EdgesOf(k) == paths[k].edges

FromPoints ==
    UNION {{EdgesOf(k)[j][1] : j \in 1..Len(EdgesOf(k))} : k \in PathIds}

NoEdges == \A k \in PathIds : EdgesOf(k) = <<>>

\* from-points of the paths generated before the scan reaches p
FromPointsBefore(p) ==
    UNION {{EdgesOf(k)[j][1] : j \in 1..Len(EdgesOf(k))} :
              k \in {q \in PathIds : q = 1 \/ paths[q].start < p}}

\* the points the scan has gone past
Scanned == IF point = 0 THEN {} ELSE 1..(point - 1)

RecursiveSeeds == {paths[k].start : k \in PathIds \ {1}}

----------------------------------------------------------------------------
(* C1: every path, the initial one or one seeded by the recursive scan,    *)
(* stops right after the first edge whose to_point is the path's own seed: *)
(* no edge of a path follows an edge that returned to the path's seed.     *)
C1_StopsAtOwnSeed ==
    \A k \in PathIds :
        \A j \in 1..(Len(EdgesOf(k)) - 1) : EdgesOf(k)[j][2] # paths[k].start

(* C2 as written: after a complete run with recursive=True, for every      *)
(* iterations >= 0, every point of 1..modulus-1 is the from_point of some  *)
(* emitted edge.                                                           *)
C2_CoverageAnyIterations ==
    (pc = "done" /\ recursive) => (1..(modulus - 1)) \subseteq FromPoints

(* C2 amended: after a complete run with recursive=True and                *)
(* iterations >= 1, every point of 1..modulus-1 is the from_point of some  *)
(* emitted edge.                                                           *)
C2_Coverage ==
    (pc = "done" /\ recursive /\ iterations >= 1)
        => (1..(modulus - 1)) \subseteq FromPoints

C2_Witness ==
    /\ pc = "done" /\ recursive /\ iterations >= 1
    /\ modulus >= 3 /\ Len(paths) >= 2
    /\ (1..(modulus - 1)) \subseteq FromPoints

(* C3: with positive start, multiplier, modulus and iterations, in either  *)
(* direction, every current point and every next point of a recurrence     *)
(* step lies in 1..modulus; 0 is never produced.                           *)
C3_PointsInRange ==
    (iterations >= 1) =>
        /\ \A k \in PathIds : \A j \in 1..Len(EdgesOf(k)) :
              EdgesOf(k)[j][1] \in 1..modulus /\ EdgesOf(k)[j][2] \in 1..modulus
        /\ pc = "path" => current_number \in 1..modulus

(* C4: for modulus >= 1, gcd(multiplier, modulus) = 1 and a point p of     *)
(* 1..modulus, the forward step followed by the backward step returns p.   *)
C4_RoundTrip ==
    (fn_pc = "backward" /\ gcd(mult, mod) = 1) => out[2] = n

(* C5 as written: backward direction with a multiplier that is not         *)
(* invertible: the run ends in NoModularInverse and emits no edge, for     *)
(* every iterations including 0.                                           *)
C5_RaisesAnyIterations ==
    (~direction /\ gcd(multiplier, modulus) # 1)
        => /\ NoEdges
           /\ pc \notin {"scan", "done"}

(* C5 amended: backward direction with a multiplier that is not            *)
(* invertible and iterations >= 1: the first step of the initial path      *)
(* raises NoModularInverse; no edge is emitted, no second path is started  *)
(* and the run never completes.                                            *)
C5_Raises ==
    (~direction /\ gcd(multiplier, modulus) # 1 /\ iterations >= 1)
        => /\ NoEdges
           /\ visited = {}
           /\ pc \notin {"scan", "done"}
           /\ Len(paths) <= 1
           /\ pc = "path" => (step = 0 /\ ENABLED PathRaises /\ ~ENABLED PathStep
                              /\ ~ENABLED PathBreak /\ ~ENABLED PathExhausted)

C5_Witness ==
    /\ pc = "NoModularInverse" /\ ~direction /\ iterations >= 1
    /\ gcd(multiplier, modulus) # 1 /\ Len(paths) = 1 /\ NoEdges

C7_PathLength ==
    /\ Len(paths) <= modulus
    /\ \A k \in PathIds :
        /\ Len(EdgesOf(k)) <= iterations
        /\ (paths[k].returned
              /\ \A j \in 1..Len(EdgesOf(k)) : EdgesOf(k)[j][2] # paths[k].start)
            => Len(EdgesOf(k)) = iterations

(* C8: for n >= 1 and mod >= 1, digital_root(n, mod) is the one value of   *)
(* 1..mod congruent to n modulo mod (a positive multiple of mod maps to    *)
(* mod, not to 0); digital_root(0, mod) = 0.                               *)
C8_DigitalRoot ==
    fn_pc = "root" =>
        /\ n = 0 => out[1] = 0
        /\ n >= 1 =>
              /\ out[1] \in 1..mod
              /\ Congruent(out[1], n, mod)
              /\ \A v \in 1..mod : Congruent(v, n, mod) => v = out[1]
              /\ n % mod = 0 => out[1] = mod

C8_Witness ==
    fn_pc = "root" /\ n >= 1 /\ n > mod /\ mod > 1 /\ n % mod = 0 /\ out[1] = mod

(* C9: for every background_color and text_color, equal or absent from     *)
(* the built-in list included, the run reaches path generation with a      *)
(* palette that holds neither colour, and every path's colour is drawn     *)
(* from that palette.                                                      *)
C9_PaletteExcludes ==
    /\ pc # "ValueError"
    /\ pc \notin {"colors", "idle"} =>
          /\ background_color \notin Elems(colors)
          /\ text_color \notin Elems(colors)
          /\ \A k \in PathIds : paths[k].color \in Elems(colors)

(* C10: the visited set is exactly the set of from_points of the edges     *)
(* emitted so far; the scan, in increasing order of p, seeds a path from p *)
(* exactly when p is in 1..modulus-1 and p is not visited when the scan    *)
(* reaches it; modulus never seeds a path in the scan; without recursive   *)
(* only the initial path is generated.                                     *)
C10_VisitedAndSeeds ==
    /\ visited = FromPoints
    /\ paths # <<>> => paths[1].start = start
    /\ ~recursive => Len(paths) <= 1
    /\ \A k \in PathIds \ {1} : \A q \in PathIds \ {1} :
          k < q => paths[k].start < paths[q].start
    /\ modulus \notin RecursiveSeeds
    /\ RecursiveSeeds \subseteq (Scanned \cup {point})
    /\ \A p \in Scanned :
          p \in RecursiveSeeds <=>
              (p \in 1..(modulus - 1) /\ p \notin FromPointsBefore(p))

C10_Witness ==
    /\ pc = "done" /\ recursive /\ Len(paths) >= 3
    /\ \E p \in 1..(modulus - 1) : p # start /\ p \notin RecursiveSeeds
    /\ modulus \notin visited

====
